---- MODULE Spec2Model ----
(***************************************************************************)
(* Model of cmd/go-cacher/cacher.go: resolution of the cache backends from *)
(* the environment, composition of the cache handed to cacheproc, and the  *)
(* endpoint resolver installed on the S3 client.                           *)
(*                                                                         *)
(* Strings are sequences of one-character strings.  The characters an      *)
(* environment value is built from are those of InChars: two lower-case    *)
(* letters, one upper-case letter, one digit, and ':' '/' '?' '#' '=' ' '. *)
(* There is no '%', '&', ';', '@', '[' or '+' among them, so the branches  *)
(* of net/url that handle percent-decoding, several query pairs, userinfo  *)
(* and IPv6 literals are not exercised; everything else of url.Parse,      *)
(* URL.Query, Values.Set, Values.Encode and URL.String is modelled step by *)
(* step.                                                                   *)
(***************************************************************************)
EXTENDS Integers, Sequences, FiniteSets, TLC

\* ------------------------------------------------------------------ bounds

\* How many cache requests the protocol runner serves in a modelled run.
MaxRequests == 2

\* ------------------------------------------------------------- characters

Lower == {"a", "x"}
Upper == {"H"}
Digit == {"9"}

\* bytes.ToLower on the modelled letters (strings.ToLower, url.go parse).
LowerOf(c) == IF c = "H" THEN "h" ELSE c

\* Byte values, for sort.Strings in Values.Encode.
Ord(c) ==
    CASE c = " " -> 32 [] c = "#" -> 35 [] c = "/" -> 47 [] c = "9" -> 57
      [] c = ":" -> 58 [] c = "=" -> 61 [] c = "?" -> 63 [] c = "H" -> 72
      [] c = "a" -> 97 [] c = "e" -> 101 [] c = "g" -> 103 [] c = "h" -> 104
      [] c = "i" -> 105 [] c = "n" -> 110 [] c = "o" -> 111 [] c = "r" -> 114
      [] c = "x" -> 120 [] OTHER -> 0

\* ------------------------------------------------------- package strings

\* strings.Index for a single byte: the first position of c in s, 0 if none.
IndexOf(s, c) ==
    IF \E i \in 1..Len(s) : s[i] = c
    THEN CHOOSE i \in 1..Len(s) : s[i] = c /\ \A j \in 1..(i - 1) : s[j] # c
    ELSE 0

\* strings.LastIndex for a single byte.
LastIndexOf(s, c) ==
    IF \E i \in 1..Len(s) : s[i] = c
    THEN CHOOSE i \in 1..Len(s) : s[i] = c /\ \A j \in (i + 1)..Len(s) : s[j] # c
    ELSE 0

Contains(s, c) == IndexOf(s, c) # 0

\* strings.Count for a single byte.
Count(s, c) == Cardinality({i \in 1..Len(s) : s[i] = c})

\* strings.Cut: before, after, found.
Cut(s, c) ==
    LET i == IndexOf(s, c) IN
    IF i = 0 THEN [before |-> s, after |-> <<>>, found |-> FALSE]
    ELSE [before |-> SubSeq(s, 1, i - 1), after |-> SubSeq(s, i + 1, Len(s)),
          found |-> TRUE]

HasPrefix(s, p) == Len(s) >= Len(p) /\ SubSeq(s, 1, Len(p)) = p

HasSuffix(s, p) == Len(s) >= Len(p) /\ SubSeq(s, Len(s) - Len(p) + 1, Len(s)) = p

ToLower(s) == [i \in 1..Len(s) |-> LowerOf(s[i])]

\* Go's string order (byte-wise lexicographic), a < b.
RECURSIVE StrLess(_, _)
StrLess(a, b) ==
    IF b = <<>> THEN FALSE
    ELSE IF a = <<>> THEN TRUE
    ELSE IF Ord(Head(a)) # Ord(Head(b)) THEN Ord(Head(a)) < Ord(Head(b))
    ELSE StrLess(Tail(a), Tail(b))

\* ------------------------------------------------------------ package net/url

\* The zero url.URL (no userinfo can occur: there is no '@').
ZeroURL ==
    [Scheme |-> <<>>, Opaque |-> <<>>, Host |-> <<>>, Path |-> <<>>,
     RawPath |-> <<>>, OmitHost |-> FALSE, ForceQuery |-> FALSE,
     RawQuery |-> <<>>, Fragment |-> <<>>, RawFragment |-> <<>>]

\* url.shouldEscape, for the modes "host", "path", "fragment" and "query"
\* (encodeQueryComponent).
shouldEscape(c, mode) ==
    IF c \in Lower \cup Upper \cup Digit \cup {"h", "e", "g", "i", "n", "o", "r"} THEN FALSE
    ELSE IF mode = "host" /\ c \in {"=", ":"} THEN FALSE
    ELSE IF c \in {"/", ":", "=", "?"}
         THEN CASE mode = "path" -> c = "?"
                [] mode = "query" -> TRUE
                [] mode = "fragment" -> FALSE
                [] OTHER -> TRUE
    ELSE TRUE

\* The "%XX" that url.escape writes for a byte.
PercentOf(c) ==
    CASE c = " " -> <<"%", "2", "0">> [] c = "#" -> <<"%", "2", "3">>
      [] c = "/" -> <<"%", "2", "F">> [] c = ":" -> <<"%", "3", "A">>
      [] c = "=" -> <<"%", "3", "D">> [] c = "?" -> <<"%", "3", "F">>
      [] OTHER -> <<"%", c>>

\* url.escape.
RECURSIVE escape(_, _)
escape(s, mode) ==
    IF s = <<>> THEN <<>>
    ELSE LET c == Head(s)
             e == IF ~shouldEscape(c, mode) THEN <<c>>
                  ELSE IF c = " " /\ mode = "query" THEN <<"+">>
                  ELSE PercentOf(c)
         IN e \o escape(Tail(s), mode)

\* url.unescape: without '%' and '+' in the input it changes no byte, and in
\* host mode it rejects every byte that shouldEscape says a host cannot hold.
unescape(s, mode) ==
    IF mode = "host" /\ \E i \in 1..Len(s) : shouldEscape(s[i], "host")
    THEN [err |-> "invalid character in host name", val |-> <<>>]
    ELSE [err |-> "", val |-> s]

\* url.validEncoded.
validEncoded(s, mode) ==
    \A i \in 1..Len(s) :
        \/ s[i] \in {"=", ":", "%"}
        \/ ~shouldEscape(s[i], mode)

\* url.getScheme, once the scan has stopped at byte i.
schemeAt(rawURL, i) ==
    IF rawURL[i] = ":"
    THEN IF i = 1
         THEN [err |-> "missing protocol scheme", scheme |-> <<>>, rest |-> <<>>]
         ELSE [err |-> "", scheme |-> SubSeq(rawURL, 1, i - 1),
               rest |-> SubSeq(rawURL, i + 1, Len(rawURL))]
    ELSE [err |-> "", scheme |-> <<>>, rest |-> rawURL]

\* The bytes at which the scan of url.getScheme stops: neither a letter
\* nor, after the first byte, a digit.
schemeStops(rawURL) ==
    {i \in 1..Len(rawURL) :
        /\ rawURL[i] \notin Lower \cup Upper
        /\ (rawURL[i] \notin Digit \/ i = 1)}

\* The least element of a non-empty set of positions.
Least(S) == CHOOSE k \in S : \A j \in S : k <= j

\* url.getScheme: the first byte that ends the scan decides.
getScheme(rawURL) ==
    IF schemeStops(rawURL) = {}
    THEN [err |-> "", scheme |-> <<>>, rest |-> rawURL]
    ELSE schemeAt(rawURL, Least(schemeStops(rawURL)))

\* url.validOptionalPort.
validOptionalPort(port) ==
    \/ port = <<>>
    \/ /\ port[1] = ":"
       /\ \A i \in 2..Len(port) : port[i] \in Digit

\* url.parseHost (no '[' can occur).
parseHost(host) ==
    LET i == LastIndexOf(host, ":") IN
    IF i # 0 /\ ~validOptionalPort(SubSeq(host, i, Len(host)))
    THEN [err |-> "invalid port after host", val |-> <<>>]
    ELSE unescape(host, "host")

\* url.parseAuthority (no '@' can occur, so there is no userinfo).
parseAuthority(authority) == parseHost(authority)

\* URL.setPath.
setPath(u, p) ==
    LET escp == escape(p, "path") IN
    [u EXCEPT !.Path = p, !.RawPath = IF p = escp THEN <<>> ELSE p]

\* URL.setFragment.
setFragment(u, f) ==
    LET escf == escape(f, "fragment") IN
    [u EXCEPT !.Fragment = f, !.RawFragment = IF f = escf THEN <<>> ELSE f]

\* url.parse, the authority branch: rest begins with "//"; a0 is what
\* follows it and i the position of the first '/' in a0.
parseWithAuthority(u0, a0, i, h) ==
    IF h.err # "" THEN [err |-> h.err, url |-> ZeroURL]
    ELSE [err |-> "",
          url |-> setPath([u0 EXCEPT !.Host = h.val],
                          IF i # 0 THEN SubSeq(a0, i, Len(a0)) ELSE <<>>)]

\* The authority in a0: up to its first '/', at position i.
authorityOf(a0, i) == IF i # 0 THEN SubSeq(a0, 1, i - 1) ELSE a0

\* url.parse after the scheme and the query are split off: u0 holds them
\* and rest is what is left.
parseRest(u0, rest) ==
    IF ~HasPrefix(rest, <<"/">>) /\ u0.Scheme # <<>>
    THEN [err |-> "", url |-> [u0 EXCEPT !.Opaque = rest]]
    ELSE IF ~HasPrefix(rest, <<"/">>) /\ Contains(Cut(rest, "/").before, ":")
    THEN [err |-> "first path segment in URL cannot contain colon", url |-> ZeroURL]
    ELSE IF (u0.Scheme # <<>> \/ ~HasPrefix(rest, <<"/", "/", "/">>))
            /\ HasPrefix(rest, <<"/", "/">>)
    THEN parseWithAuthority(u0, SubSeq(rest, 3, Len(rest)),
                            IndexOf(SubSeq(rest, 3, Len(rest)), "/"),
                            parseAuthority(authorityOf(SubSeq(rest, 3, Len(rest)),
                                                       IndexOf(SubSeq(rest, 3, Len(rest)), "/"))))
    ELSE [err |-> "",
          url |-> setPath([u0 EXCEPT !.OmitHost = u0.Scheme # <<>> /\ HasPrefix(rest, <<"/">>)],
                          rest)]

\* url.parse after getScheme: the query is split off at the first '?'; a
\* lone '?' at the end sets ForceQuery.
parseQuerySplit(scheme, rest, force) ==
    parseRest([ZeroURL EXCEPT !.Scheme = ToLower(scheme), !.ForceQuery = force,
                              !.RawQuery = IF force THEN <<>> ELSE Cut(rest, "?").after],
              IF force THEN SubSeq(rest, 1, Len(rest) - 1) ELSE Cut(rest, "?").before)

\* url.parse after getScheme returned gs.
parseScheme(gs) ==
    IF gs.err # "" THEN [err |-> gs.err, url |-> ZeroURL]
    ELSE parseQuerySplit(gs.scheme, gs.rest,
                         HasSuffix(gs.rest, <<"?">>) /\ Count(gs.rest, "?") = 1)

\* url.parse(rawURL, viaRequest = false).
parse(rawURL) == parseScheme(getScheme(rawURL))

\* url.Parse after the fragment is cut off (frag) and the rest parsed (p).
parseFragment(p, frag) ==
    IF p.err # "" THEN p
    ELSE IF frag = <<>> THEN p
    ELSE [err |-> "", url |-> setFragment(p.url, frag)]

\* url.Parse.
Parse(rawURL) == parseFragment(parse(Cut(rawURL, "#").before), Cut(rawURL, "#").after)

\* URL.EscapedPath.
EscapedPath(u) ==
    IF u.RawPath # <<>> /\ validEncoded(u.RawPath, "path")
       /\ unescape(u.RawPath, "path").val = u.Path
    THEN u.RawPath
    ELSE escape(u.Path, "path")

\* URL.EscapedFragment.
EscapedFragment(u) ==
    IF u.RawFragment # <<>> /\ validEncoded(u.RawFragment, "fragment")
       /\ unescape(u.RawFragment, "fragment").val = u.Fragment
    THEN u.RawFragment
    ELSE escape(u.Fragment, "fragment")

\* URL.String: the scheme and ':'.
stringScheme(u) == IF u.Scheme # <<>> THEN u.Scheme \o <<":">> ELSE <<>>

\* URL.String: "//" and the host.
stringAuthority(u) ==
    IF u.Scheme # <<>> \/ u.Host # <<>>
    THEN IF u.OmitHost /\ u.Host = <<>> THEN <<>>
         ELSE (IF u.Host # <<>> \/ u.Path # <<>> THEN <<"/", "/">> ELSE <<>>)
              \o escape(u.Host, "host")
    ELSE <<>>

\* URL.String: the path, written after head (the scheme and authority).
stringPath(u, head, path) ==
    LET slash == IF path # <<>> /\ path[1] # "/" /\ u.Host # <<>> THEN <<"/">> ELSE <<>>
        dot == IF head \o slash = <<>> /\ Contains(Cut(path, "/").before, ":")
               THEN <<".", "/">> ELSE <<>>
    IN head \o slash \o dot \o path

\* URL.String.
String(u) ==
    (IF u.Opaque # <<>> THEN stringScheme(u) \o u.Opaque
     ELSE stringPath(u, stringScheme(u) \o stringAuthority(u), EscapedPath(u)))
    \o (IF u.ForceQuery \/ u.RawQuery # <<>> THEN <<"?">> \o u.RawQuery ELSE <<>>)
    \o (IF u.Fragment # <<>> THEN <<"#">> \o EscapedFragment(u) ELSE <<>>)

\* url.ParseQuery as URL.Query uses it (errors dropped).  Without '&' the
\* query holds at most one pair, so url.Values is a set of pairs with one
\* value a key.
ParseQuery(query) ==
    IF query = <<>> THEN {}
    ELSE LET c == Cut(query, "=") IN
         {[key |-> unescape(c.before, "query").val, val |-> unescape(c.after, "query").val]}

\* Values.Set.
ValuesSet(v, key, value) ==
    {p \in v : p.key # key} \cup {[key |-> key, val |-> value]}

\* Values.Encode: one key=value pair, and what follows it.
encodePair(p, rest) ==
    escape(p.key, "query") \o <<"=">> \o escape(p.val, "query")
    \o (IF rest = <<>> THEN <<>> ELSE <<"&">> \o rest)

\* The pair of v with the least key.
firstPair(v) == CHOOSE q \in v : \A r \in v : r = q \/ StrLess(q.key, r.key)

\* Values.Encode: the pairs in the order of their keys, joined by '&'.
RECURSIVE Encode(_)
Encode(v) ==
    IF v = {} THEN <<>>
    ELSE encodePair(firstPair(v), Encode(v \ {firstPair(v)}))

\* ------------------------------------------------------------- cacher.go

\* A nil pointer or interface, and a non-nil one.
Nil == [nil |-> TRUE]
Ref(v) == [nil |-> FALSE, val |-> v]

defaultCacheKey == <<"v", "1">>

envVarDiskCacheDir == "GOCACHE_DISK_DIR"
envVarS3Endpoint == "GOCACHE_S3_ENDPOINT"
envVarS3CacheRegion == "GOCACHE_AWS_REGION"
envVarS3AwsAccessKey == "GOCACHE_AWS_ACCESS_KEY"
envVarS3AwsSecretAccessKey == "GOCACHE_AWS_SECRET_KEY"
envVarS3AwsCredsProfile == "GOCACHE_AWS_CREDS_PROFILE"
envVarS3BucketName == "GOCACHE_S3_BUCKET"
envVarS3CacheKey == "GOCACHE_CACHE_KEY"
envVarHttpCacheServerBase == "GOCACHE_HTTP_SERVER_BASE"

EnvKeys ==
    {envVarDiskCacheDir, envVarS3Endpoint, envVarS3CacheRegion, envVarS3AwsAccessKey,
     envVarS3AwsSecretAccessKey, envVarS3AwsCredsProfile, envVarS3BucketName,
     envVarS3CacheKey, envVarHttpCacheServerBase}

\* osEnv.Get: the value of the variable, "" when it is unset.
Get(env, key) == env[key]

region_str == <<"r", "e", "g", "i", "o", "n">>

\* Mutant: the region is written into the query as it is, unescaped.
resolveParsed_rawRegion(params, p) ==
    IF p.err # "" THEN [panic |-> FALSE, err |-> p.err, URI |-> ZeroURL]
    ELSE IF params.Region # Nil
    THEN [panic |-> FALSE, err |-> "",
          URI |-> [p.url EXCEPT !.RawQuery = region_str \o <<"=">> \o params.Region.val]]
    ELSE [panic |-> FALSE, err |-> "", URI |-> p.url]

\* resolver.ResolveEndpoint, lines 108-119: p is what neturl.Parse returned.
resolveParsed(params, p) ==
    IF p.err # "" THEN [panic |-> FALSE, err |-> p.err, URI |-> ZeroURL]
    ELSE IF params.Region # Nil
    THEN [panic |-> FALSE, err |-> "",
          URI |-> [p.url EXCEPT !.RawQuery =
                      Encode(ValuesSet(ParseQuery(p.url.RawQuery), region_str,
                                       params.Region.val))]]
    ELSE [panic |-> FALSE, err |-> "", URI |-> p.url]

\* resolver.ResolveEndpoint.  params holds the three pointers the method
\* dereferences; a nil Endpoint or Bucket makes the dereference panic.
ResolveEndpoint(params) ==
    IF params.Endpoint = Nil \/ params.Bucket = Nil
    THEN [panic |-> TRUE, err |-> "", URI |-> ZeroURL]
    ELSE resolveParsed(params, Parse(params.Endpoint.val \o <<"/">> \o params.Bucket.val))

\* getAwsConfigFromEnv, lines 71-86: config.LoadDefaultConfig with the region
\* and a static credentials provider, then the optional base endpoint.
\* loadErr is the outcome of config.LoadDefaultConfig.  The config it loads
\* has no base endpoint of its own (the SDK's AWS_ENDPOINT_URL and the
\* endpoint_url of a profile are taken to be unset).
LoadStaticConfig(env, loadErr, rd) ==
    LET endpoint == Get(env, envVarS3Endpoint) IN
    IF loadErr
    THEN [cfg |-> Nil, err |-> TRUE, reads |-> rd, loaded |-> "static"]
    ELSE [cfg |-> Ref([Region |-> Get(env, envVarS3CacheRegion),
                       Credentials |-> [kind |-> "StaticKeyPair",
                                        AccessKeyID |-> Get(env, envVarS3AwsAccessKey),
                                        SecretAccessKey |-> Get(env, envVarS3AwsSecretAccessKey)],
                       BaseEndpoint |-> IF endpoint # <<>> THEN Ref(endpoint) ELSE Nil]),
          err |-> FALSE, reads |-> rd \cup {envVarS3Endpoint}, loaded |-> "static"]

\* getAwsConfigFromEnv, lines 90-94: config.LoadDefaultConfig with the region
\* and the shared config profile.
LoadProfileConfig(env, loadErr, rd) ==
    IF loadErr
    THEN [cfg |-> Nil, err |-> TRUE, reads |-> rd, loaded |-> "profile"]
    ELSE [cfg |-> Ref([Region |-> Get(env, envVarS3CacheRegion),
                       Credentials |-> [kind |-> "NamedProfile",
                                        Profile |-> Get(env, envVarS3AwsCredsProfile)],
                       BaseEndpoint |-> Nil]),
          err |-> FALSE, reads |-> rd, loaded |-> "profile"]

NoConfig(rd) == [cfg |-> Nil, err |-> FALSE, reads |-> rd, loaded |-> "none"]

KeyReads == {envVarS3CacheRegion, envVarS3AwsAccessKey, envVarS3AwsSecretAccessKey}

\* Mutant: the region is not required.
getAwsConfigFromEnv_noRegionCheck(env, loadErr) ==
    IF Get(env, envVarS3AwsAccessKey) # <<>> /\ Get(env, envVarS3AwsSecretAccessKey) # <<>>
    THEN LoadStaticConfig(env, loadErr, KeyReads)
    ELSE IF Get(env, envVarS3AwsCredsProfile) # <<>>
    THEN LoadProfileConfig(env, loadErr, KeyReads \cup {envVarS3AwsCredsProfile})
    ELSE NoConfig(KeyReads \cup {envVarS3AwsCredsProfile})

\* Mutant: the profile is looked at before the key pair.
getAwsConfigFromEnv_profileFirst(env, loadErr) ==
    IF Get(env, envVarS3CacheRegion) = <<>>
    THEN NoConfig({envVarS3CacheRegion})
    ELSE IF Get(env, envVarS3AwsCredsProfile) # <<>>
    THEN LoadProfileConfig(env, loadErr, {envVarS3CacheRegion, envVarS3AwsCredsProfile})
    ELSE IF Get(env, envVarS3AwsAccessKey) # <<>> /\ Get(env, envVarS3AwsSecretAccessKey) # <<>>
    THEN LoadStaticConfig(env, loadErr, KeyReads \cup {envVarS3AwsCredsProfile})
    ELSE NoConfig(KeyReads \cup {envVarS3AwsCredsProfile})

\* Mutant: one key of the pair is enough (|| for &&).
getAwsConfigFromEnv_eitherKey(env, loadErr) ==
    IF Get(env, envVarS3CacheRegion) = <<>>
    THEN NoConfig({envVarS3CacheRegion})
    ELSE IF Get(env, envVarS3AwsAccessKey) # <<>> \/ Get(env, envVarS3AwsSecretAccessKey) # <<>>
    THEN LoadStaticConfig(env, loadErr, KeyReads)
    ELSE IF Get(env, envVarS3AwsCredsProfile) # <<>>
    THEN LoadProfileConfig(env, loadErr, KeyReads \cup {envVarS3AwsCredsProfile})
    ELSE NoConfig(KeyReads \cup {envVarS3AwsCredsProfile})

\* getAwsConfigFromEnv.  loadErr is the outcome of config.LoadDefaultConfig
\* when it is called; reads are the variables the function asks env for;
\* loaded tells which of the two LoadDefaultConfig calls was made.
getAwsConfigFromEnv(env, loadErr) ==
    IF Get(env, envVarS3CacheRegion) = <<>>
    THEN NoConfig({envVarS3CacheRegion})
    ELSE IF Get(env, envVarS3AwsAccessKey) # <<>> /\ Get(env, envVarS3AwsSecretAccessKey) # <<>>
    THEN LoadStaticConfig(env, loadErr, KeyReads)
    ELSE IF Get(env, envVarS3AwsCredsProfile) # <<>>
    THEN LoadProfileConfig(env, loadErr, KeyReads \cup {envVarS3AwsCredsProfile})
    ELSE NoConfig(KeyReads \cup {envVarS3AwsCredsProfile})

\* maybeS3Cache, lines 132-139: the S3 cache over a client made from the
\* config.  The client keeps the region, credentials and base endpoint of
\* the config and the resolver that s3.WithEndpointResolverV2 installs.
NewS3Cache(cfg, bucket, cacheKey, flagVerbose) ==
    [kind |-> "S3",
     client |-> [Region |-> cfg.Region,
                 Credentials |-> cfg.Credentials,
                 BaseEndpoint |-> cfg.BaseEndpoint,
                 EndpointResolverV2 |-> "resolver"],
     bucket |-> bucket,
     cacheKey |-> IF cacheKey = <<>> THEN defaultCacheKey ELSE cacheKey,
     verbose |-> flagVerbose]

\* maybeS3Cache, lines 124-139: a is what getAwsConfigFromEnv returned.
maybeS3CacheWith(a, env, flagVerbose) ==
    IF a.err
    THEN [remote |-> Nil, err |-> TRUE, reads |-> a.reads, aws |-> a]
    ELSE IF Get(env, envVarS3BucketName) = <<>> \/ a.cfg = Nil
    THEN [remote |-> Nil, err |-> FALSE, reads |-> a.reads \cup {envVarS3BucketName},
          aws |-> a]
    ELSE [remote |-> Ref(NewS3Cache(a.cfg.val, Get(env, envVarS3BucketName),
                                    Get(env, envVarS3CacheKey), flagVerbose)),
          err |-> FALSE,
          reads |-> a.reads \cup {envVarS3BucketName, envVarS3CacheKey},
          aws |-> a]

\* maybeS3Cache.
maybeS3Cache(env, flagVerbose, loadErr) ==
    maybeS3CacheWith(getAwsConfigFromEnv(env, loadErr), env, flagVerbose)

\* maybeHttpCache.
maybeHttpCache(env, flagVerbose) ==
    LET serverBase == Get(env, envVarHttpCacheServerBase) IN
    IF serverBase = <<>>
    THEN [remote |-> Nil, err |-> FALSE, reads |-> {envVarHttpCacheServerBase}]
    ELSE [remote |-> Ref([kind |-> "Http", serverBase |-> serverBase,
                          verbose |-> flagVerbose]),
          err |-> FALSE, reads |-> {envVarHttpCacheServerBase}]

\* The directory os.UserCacheDir()/go-cacher.
DefaultDir == <<"UserCacheDir", "/", "go-cacher">>

\* getDir.  ucdErr is the outcome of os.UserCacheDir when it is called.
getDir(env, ucdErr) ==
    LET dir == Get(env, envVarDiskCacheDir) IN
    IF dir = <<>>
    THEN IF ucdErr THEN [fatal |-> TRUE, dir |-> <<>>]
         ELSE [fatal |-> FALSE, dir |-> DefaultDir]
    ELSE [fatal |-> FALSE, dir |-> dir]

\* What getCache has when it stops before returning a cache.
NoCache ==
    [fatal |-> "", cache |-> Nil, reads |-> {}, calls |-> {}, remotes |-> {}, aws |-> Nil]

\* What getCache has after the call of maybeS3Cache that returned s.
AfterS3(s) ==
    [NoCache EXCEPT !.reads = s.reads,
                    !.calls = {"maybeS3Cache", "getAwsConfigFromEnv"},
                    !.aws = Ref(s.aws)]

\* Mutant: the HTTP cache is tried first and the S3 cache after it.
selectRemote_httpFirst(s, h) ==
    IF h.remote # Nil
    THEN [NoCache EXCEPT !.reads = h.reads, !.calls = {"maybeHttpCache"},
                         !.aws = Ref(s.aws),
                         !.cache = h.remote, !.remotes = {"Http"}]
    ELSE IF s.err
    THEN [AfterS3(s) EXCEPT !.fatal = "maybeS3Cache",
                            !.reads = @ \cup h.reads,
                            !.calls = @ \cup {"maybeHttpCache"}]
    ELSE [AfterS3(s) EXCEPT !.cache = s.remote,
                            !.reads = @ \cup h.reads,
                            !.calls = @ \cup {"maybeHttpCache"},
                            !.remotes = IF s.remote # Nil THEN {"S3"} ELSE {}]

\* Mutant: an error of maybeS3Cache is dropped and the HTTP cache is tried.
selectRemote_ignoreErr(s, h) ==
    IF s.remote # Nil
    THEN [AfterS3(s) EXCEPT !.cache = s.remote, !.remotes = {"S3"}]
    ELSE [AfterS3(s) EXCEPT !.cache = h.remote,
                            !.reads = @ \cup h.reads,
                            !.calls = @ \cup {"maybeHttpCache"},
                            !.remotes = IF h.remote # Nil THEN {"Http"} ELSE {}]

\* getCache, lines 146-156: the remote cache, or the log.Fatal on the way to
\* it.  s is what maybeS3Cache returned, and h what maybeHttpCache returns
\* when it is called.  The cache field holds the remote.
selectRemote(s, h) ==
    IF s.err THEN [AfterS3(s) EXCEPT !.fatal = "maybeS3Cache"]
    ELSE IF s.remote # Nil
    THEN [AfterS3(s) EXCEPT !.cache = s.remote, !.remotes = {"S3"}]
    ELSE IF h.err
    THEN [AfterS3(s) EXCEPT !.fatal = "maybeHttpCache",
                            !.reads = @ \cup h.reads,
                            !.calls = @ \cup {"maybeHttpCache"}]
    ELSE [AfterS3(s) EXCEPT !.cache = h.remote,
                            !.reads = @ \cup h.reads,
                            !.calls = @ \cup {"maybeHttpCache"},
                            !.remotes = IF h.remote # Nil THEN {"Http"} ELSE {}]

\* cachers.NewSimpleDiskCache(verbose, dir), line 144.
NewSimpleDiskCache(v, dir) == [kind |-> "SimpleDiskCache", verbose |-> v, dir |-> dir]

\* Mutant: the state-logging wrapper is applied whenever verbose is set.
compose_verboseFirst(local, remote, v) ==
    IF v
    THEN Ref([shape |-> "LocalCacheStates", local |-> local, remote |-> Nil, verbose |-> v])
    ELSE IF remote # Nil
    THEN Ref([shape |-> "CombinedCache", local |-> local, remote |-> remote, verbose |-> v])
    ELSE Ref([shape |-> "SimpleDiskCache", local |-> local, remote |-> Nil, verbose |-> v])

\* getCache, lines 157-163: the cache that is returned.
compose(local, remote, v) ==
    IF remote # Nil
    THEN Ref([shape |-> "CombinedCache", local |-> local, remote |-> remote, verbose |-> v])
    ELSE IF v
    THEN Ref([shape |-> "LocalCacheStates", local |-> local, remote |-> Nil, verbose |-> v])
    ELSE Ref([shape |-> "SimpleDiskCache", local |-> local, remote |-> Nil, verbose |-> v])

\* getCache after getDir returned d; r is what the remote selection gives.
getCacheWith(d, r, v) ==
    IF d.fatal
    THEN [NoCache EXCEPT !.fatal = "getDir", !.reads = {envVarDiskCacheDir},
                         !.calls = {"getDir"}]
    ELSE [r EXCEPT !.reads = @ \cup {envVarDiskCacheDir},
                   !.calls = @ \cup {"getDir"},
                   !.cache = IF r.fatal # "" THEN Nil
                             ELSE compose(NewSimpleDiskCache(v, d.dir), r.cache, v)]

\* getCache.  fatal names the call whose failure reached log.Fatal ("" when
\* the function returns); calls are the functions of this file that ran.
getCache(env, v, ucdErr, loadErr) ==
    getCacheWith(getDir(env, ucdErr),
                 selectRemote(maybeS3Cache(env, v, loadErr), maybeHttpCache(env, v)),
                 v)

\* ---------------------------------------------------------------- the run

VARIABLES
    env,        \* the process environment: variable name -> value
    verbose,    \* the -verbose flag
    pc,         \* where main is
    cache,      \* what getCache returned (Nil before, and when it did not return)
    fatal,      \* the call whose failure reached log.Fatal, "" if none
    reads,      \* the variables getCache asked env for
    calls,      \* the functions of cacher.go that getCache ran
    remotes,    \* the remote caches getCache constructed
    aws,        \* what getAwsConfigFromEnv returned
    served,     \* cache requests proc.Run has served
    params,     \* the parameters of the last ResolveEndpoint call
    endpoint    \* the result of the last ResolveEndpoint call

vars == <<env, verbose, pc, cache, fatal, reads, calls, remotes, aws, served,
          params, endpoint>>

\* Values of the environment variables.
Unset == <<>>
SomeValue == {<<"a">>}
GoodEndpoint == <<"a", ":", "/", "/", "x", ":", "9">>
BadEndpoint == <<"a", ":", "/", "/", "x", " ">>

Envs ==
    [GOCACHE_DISK_DIR : {Unset} \cup SomeValue,
     GOCACHE_S3_ENDPOINT : {Unset, GoodEndpoint, BadEndpoint},
     GOCACHE_AWS_REGION : {Unset} \cup SomeValue,
     GOCACHE_AWS_ACCESS_KEY : {Unset} \cup SomeValue,
     GOCACHE_AWS_SECRET_KEY : {Unset} \cup SomeValue,
     GOCACHE_AWS_CREDS_PROFILE : {Unset} \cup SomeValue,
     GOCACHE_S3_BUCKET : {Unset} \cup SomeValue,
     GOCACHE_CACHE_KEY : {Unset} \cup SomeValue,
     GOCACHE_HTTP_SERVER_BASE : {Unset} \cup SomeValue]

EmptyEnv == [k \in EnvKeys |-> Unset]

Init ==
    /\ env \in Envs
    /\ verbose \in BOOLEAN
    /\ pc = "main"
    /\ cache = Nil
    /\ fatal = ""
    /\ reads = {}
    /\ calls = {}
    /\ remotes = {}
    /\ aws = Nil
    /\ served = 0
    /\ params = Nil
    /\ endpoint = Nil

\* main: what getCache did (r) becomes the state of the process.
Returned(r) ==
    /\ cache' = r.cache
    /\ fatal' = r.fatal
    /\ reads' = r.reads
    /\ calls' = r.calls
    /\ remotes' = r.remotes
    /\ aws' = r.aws
    /\ pc' = IF r.fatal # "" THEN "fatal" ELSE "getCache"

\* main: cache := getCache(ctx, env, *verbose); log.Fatal inside it ends
\* the process.
GetCache ==
    /\ pc = "main"
    /\ \E ucdErr \in BOOLEAN, loadErr \in BOOLEAN :
         Returned(getCache(env, verbose, ucdErr, loadErr))
    /\ UNCHANGED <<env, verbose, served, params, endpoint>>

\* main: proc := cacheproc.NewCacheProc(cache); proc.Run(ctx) starts.
Run ==
    /\ pc = "getCache"
    /\ pc' = "proc.Run"
    /\ UNCHANGED <<env, verbose, cache, fatal, reads, calls, remotes, aws, served,
                   params, endpoint>>

\* The endpoint parameters of an operation of the client of the S3 cache c:
\* the client's BaseEndpoint and Region and the bucket of the operation.
S3EndpointParameters(c) ==
    [Endpoint |-> c.client.BaseEndpoint,
     Bucket |-> Ref(c.bucket),
     Region |-> Ref(c.client.Region)]

\* proc.Run serves one cache request.  A request that reaches an S3 remote
\* is an operation of the S3 client, which asks its EndpointResolverV2 for
\* the endpoint; a panic in it ends the process.  s3.NewFromConfig and
\* cachers.NewS3Cache themselves never call the resolver: maybeS3Cache
\* returns them with a nil error.
Request ==
    /\ pc = "proc.Run"
    /\ served < MaxRequests
    /\ served' = served + 1
    /\ \E toRemote \in BOOLEAN :
         IF toRemote /\ cache.val.remote # Nil /\ cache.val.remote.val.kind = "S3"
         THEN /\ params' = Ref(S3EndpointParameters(cache.val.remote.val))
              /\ endpoint' = Ref(ResolveEndpoint(params'.val))
              /\ pc' = IF endpoint'.val.panic THEN "panic" ELSE pc
         ELSE UNCHANGED <<params, endpoint, pc>>
    /\ UNCHANGED <<env, verbose, cache, fatal, reads, calls, remotes, aws>>

\* main: proc.Run returns; an error goes to log.Fatal.
RunReturns ==
    /\ pc = "proc.Run"
    /\ \E err \in BOOLEAN :
         /\ pc' = IF err THEN "fatal" ELSE "exit"
         /\ fatal' = IF err THEN "proc.Run" ELSE fatal
    /\ UNCHANGED <<env, verbose, cache, reads, calls, remotes, aws, served,
                   params, endpoint>>

Next == GetCache \/ Run \/ Request \/ RunReturns

Spec == Init /\ [][Next]_vars

\* ------------------------------------------- ResolveEndpoint on its own

Endpoints ==
    {GoodEndpoint, BadEndpoint,
     <<"H", ":", "/", "/", "x">>,
     <<"a", ":", "/", "/", "x", "?", "a", "=", "x">>,
     <<"a", ":", "/", "/", "x", "?">>,
     <<"a", ":", "/", "/", "x", "#", "a">>,
     <<"a", ":", "/", "/", "x", ":", "a">>,
     <<"a", ":", "/", "/", "x", "/", "a">>,
     <<"a", ":", "/", "x">>,
     <<":", "x">>,
     <<"x", ":", "9">>,
     <<"9", "x", ":", "9">>,
     <<"/", "/", "x">>,
     <<"x">>,
     <<>>}

Buckets ==
    {<<"x">>, <<"x", " ", "a">>, <<"x", "?", "a">>, <<"x", "#", "a">>, <<"x", "/", "a">>,
     <<"x", ":", "9">>, <<"x", "?">>, <<>>}

Regions ==
    {<<"x">>, <<"a", " ", "x">>, <<"a", "/", "9">>, <<"a", "=", "H">>, <<"?">>, <<>>}

EndpointParameters ==
    [Endpoint : {Nil} \cup {Ref(e) : e \in Endpoints},
     Bucket : {Nil} \cup {Ref(b) : b \in Buckets},
     Region : {Nil} \cup {Ref(r) : r \in Regions}]

InitResolve ==
    /\ env = EmptyEnv
    /\ verbose = FALSE
    /\ pc = "ResolveEndpoint"
    /\ cache = Nil
    /\ fatal = ""
    /\ reads = {}
    /\ calls = {}
    /\ remotes = {}
    /\ aws = Nil
    /\ served = 0
    /\ params \in {Ref(p) : p \in EndpointParameters}
    /\ endpoint = Nil

\* A caller invokes (*resolver).ResolveEndpoint with params.
CallResolveEndpoint ==
    /\ pc = "ResolveEndpoint"
    /\ endpoint' = Ref(ResolveEndpoint(params.val))
    /\ pc' = IF endpoint'.val.panic THEN "panic" ELSE "resolved"
    /\ UNCHANGED <<env, verbose, cache, fatal, reads, calls, remotes, aws, served, params>>

NextResolve == CallResolveEndpoint

SpecResolve == InitResolve /\ [][NextResolve]_vars

\* ------------------------------------------------------------ properties

Region == Get(env, envVarS3CacheRegion)
AccessKey == Get(env, envVarS3AwsAccessKey)
SecretKey == Get(env, envVarS3AwsSecretAccessKey)
Profile == Get(env, envVarS3AwsCredsProfile)
Bucket == Get(env, envVarS3BucketName)
ServerBase == Get(env, envVarHttpCacheServerBase)
EndpointOverride == Get(env, envVarS3Endpoint)

\* getAwsConfigFromEnv has run and returned a config.
HasAwsConfig == aws # Nil /\ aws.val.cfg # Nil

\* The object storage activates: a bucket and a config.
S3Activates == Bucket # <<>> /\ HasAwsConfig

\* getCache returned a CombinedCache over a remote of this kind.
CombinedWith(kind) ==
    /\ cache # Nil
    /\ cache.val.shape = "CombinedCache"
    /\ cache.val.remote # Nil
    /\ cache.val.remote.val.kind = kind

\* getCache returned a cache without a remote.
LocalOnly ==
    /\ cache # Nil
    /\ cache.val.remote = Nil
    /\ cache.val.shape = IF verbose THEN "LocalCacheStates" ELSE "SimpleDiskCache"

\* C1: never two remotes; and when the object storage activates and the HTTP
\* server base is set too, the cache is CombinedCache(local, S3), built
\* without calling maybeHttpCache or reading the server base.
RemotePrecedence ==
    /\ Cardinality(remotes) <= 1
    /\ (S3Activates /\ ServerBase # <<>>) =>
          /\ CombinedWith("S3")
          /\ cache.val.remote.val.bucket = Bucket
          /\ remotes = {"S3"}
          /\ "maybeHttpCache" \notin calls
          /\ envVarHttpCacheServerBase \notin reads

RemotePrecedenceWitness ==
    /\ S3Activates
    /\ ServerBase # <<>>
    /\ pc = "getCache"
    /\ CombinedWith("S3")

\* C2: a returned cache is CombinedCache(local, remote) exactly when a remote
\* was selected, else LocalCacheStates(local) exactly when verbose is set,
\* else the local cache itself.
FacadeShapes ==
    cache # Nil =>
       LET c == cache.val
           selected == S3Activates \/ ServerBase # <<>>
       IN /\ c.shape \in {"CombinedCache", "LocalCacheStates", "SimpleDiskCache"}
          /\ c.local.kind = "SimpleDiskCache"
          /\ (c.shape = "CombinedCache") <=> selected
          /\ selected <=> (remotes # {})
          /\ selected <=> (c.remote # Nil)
          /\ ~selected => ((c.shape = "LocalCacheStates") <=> verbose)
          /\ ~selected => ((c.shape = "SimpleDiskCache") <=> ~verbose)

FacadeShapesWitness ==
    /\ pc = "getCache"
    /\ verbose
    /\ CombinedWith("Http")

\* C3: with a region and both keys, getAwsConfigFromEnv loads the static key
\* pair with that region and does not read the profile; the config it
\* returns is the same whatever the profile is.
StaticKeyPairWins ==
    (aws # Nil /\ Region # <<>> /\ AccessKey # <<>> /\ SecretKey # <<>>) =>
       /\ aws.val.loaded = "static"
       /\ envVarS3AwsCredsProfile \notin reads
       /\ aws.val.err <=> (aws.val.cfg = Nil)
       /\ ~aws.val.err =>
            aws.val.cfg.val =
               [Region |-> Region,
                Credentials |-> [kind |-> "StaticKeyPair", AccessKeyID |-> AccessKey,
                                 SecretAccessKey |-> SecretKey],
                BaseEndpoint |-> IF EndpointOverride # <<>> THEN Ref(EndpointOverride)
                                 ELSE Nil]

StaticKeyPairWinsWitness ==
    /\ HasAwsConfig
    /\ Region # <<>> /\ AccessKey # <<>> /\ SecretKey # <<>>
    /\ Profile # <<>>
    /\ aws.val.cfg.val.Credentials.kind = "StaticKeyPair"

\* C4: without a region getAwsConfigFromEnv returns no config and no error,
\* the S3 cache is not constructed, and with a bucket and a server base the
\* cache is CombinedCache(local, Http).
NoRegionNoConfig ==
    (aws # Nil /\ Region = <<>>) =>
       /\ aws.val.cfg = Nil
       /\ ~aws.val.err
       /\ aws.val.loaded = "none"
       /\ "S3" \notin remotes
       /\ cache # Nil
       /\ ServerBase # <<>> =>
            /\ CombinedWith("Http")
            /\ cache.val.remote.val.serverBase = ServerBase
       /\ ServerBase = <<>> => LocalOnly

NoRegionNoConfigWitness ==
    /\ aws # Nil
    /\ Region = <<>>
    /\ AccessKey # <<>> /\ SecretKey # <<>> /\ Profile # <<>> /\ EndpointOverride # <<>>
    /\ Bucket # <<>>
    /\ CombinedWith("Http")

\* C5: with a region and at most one key, getAwsConfigFromEnv loads the
\* named profile when there is one, and otherwise returns no config and no
\* error, so that getCache goes on to maybeHttpCache.
IncompleteKeyPairIsAbsence ==
    (aws # Nil /\ Region # <<>> /\ (AccessKey = <<>> \/ SecretKey = <<>>)) =>
       IF Profile # <<>>
       THEN /\ aws.val.loaded = "profile"
            /\ aws.val.err <=> (aws.val.cfg = Nil)
            /\ ~aws.val.err =>
                 aws.val.cfg.val =
                    [Region |-> Region,
                     Credentials |-> [kind |-> "NamedProfile", Profile |-> Profile],
                     BaseEndpoint |-> Nil]
       ELSE /\ aws.val.cfg = Nil
            /\ ~aws.val.err
            /\ aws.val.loaded = "none"
            /\ "maybeHttpCache" \in calls
            /\ cache # Nil
            /\ ServerBase # <<>> => CombinedWith("Http")
            /\ ServerBase = <<>> => LocalOnly

IncompleteKeyPairIsAbsenceWitness ==
    /\ aws # Nil
    /\ Region # <<>> /\ AccessKey # <<>> /\ SecretKey = <<>> /\ Profile = <<>>
    /\ Bucket # <<>>
    /\ CombinedWith("Http")

\* C8: proc.Run starts only with the cache getCache returned, and after a
\* failure of os.UserCacheDir or of the credential loading the process is
\* at log.Fatal with no cache, no remote and no request served.
NoDegradedStartup ==
    /\ (pc \in {"proc.Run", "exit", "panic"} \/ served > 0 \/ fatal = "proc.Run") =>
          /\ cache # Nil
          /\ ~(aws # Nil /\ aws.val.err)
    /\ ((aws # Nil /\ aws.val.err) \/ fatal \in {"getDir", "maybeS3Cache", "maybeHttpCache"}) =>
          /\ pc = "fatal"
          /\ fatal \in {"getDir", "maybeS3Cache", "maybeHttpCache"}
          /\ cache = Nil
          /\ remotes = {}
          /\ served = 0
    /\ (pc = "getCache") => (cache # Nil /\ fatal = "")

NoDegradedStartupWitness ==
    /\ aws # Nil
    /\ aws.val.err
    /\ ServerBase # <<>>
    /\ pc = "fatal"

\* C6 (as stated): the S3 client has the custom resolver only when the
\* endpoint override is set, and ResolveEndpoint is never called with a nil
\* base endpoint.
CustomResolverOnlyWithOverride ==
    /\ CombinedWith("S3") =>
          (cache.val.remote.val.client.EndpointResolverV2 = "resolver"
              => EndpointOverride # <<>>)
    /\ params # Nil => params.val.Endpoint # Nil

\* C7 (as stated): an endpoint override that does not parse ends the start
\* at log.Fatal; proc.Run is not reached and no request meets the parse
\* error.
MalformedEndpointFatalAtStartup ==
    /\ (S3Activates /\ aws.val.cfg.val.BaseEndpoint # Nil
          /\ Parse(aws.val.cfg.val.BaseEndpoint.val \o <<"/">> \o Bucket).err # "")
        => pc \in {"main", "fatal"} /\ served = 0
    /\ endpoint # Nil => endpoint.val.err = ""

\* C10 (as stated): without a bucket maybeS3Cache returns inactive, with no
\* log.Fatal, whatever config.LoadDefaultConfig does, and getCache goes on to
\* the HTTP cache.
UnsetBucketIsAbsence ==
    (pc # "main" /\ fatal # "getDir" /\ Bucket = <<>>) =>
       /\ fatal # "maybeS3Cache"
       /\ cache # Nil
       /\ ServerBase # <<>> => CombinedWith("Http")
       /\ ServerBase = <<>> => LocalOnly

\* The text has no '?', no '#' and no byte that a path escapes.
PlainText(s) == \A i \in 1..Len(s) : s[i] \notin {"?", "#", " "}

\* No upper-case letter before the first ':' of the text, where a scheme is.
LowerScheme(s) == \A i \in 1..Len(s) : (\A j \in 1..i : s[j] # ":") => s[i] \notin Upper

\* t occurs in s as a run of consecutive bytes.
ContainsSeq(s, t) ==
    \E i \in 0..(Len(s) - Len(t)) : SubSeq(s, i + 1, i + Len(t)) = t

RegionKey == region_str \o <<"=">>

====
